---- MODULE Spec2Model ----
(***************************************************************************)
(* Model of src/src/App.tsx: module initialisation (API-key check, Magic   *)
(* and BrowserProvider construction), the App component's state (account,  *)
(* loading), its three async handlers (checkLoginStatus, connectWallet,    *)
(* logout with its onUserLoggedOut callback) and its render function.      *)
(*                                                                         *)
(* JavaScript runs every handler to completion between two awaits, so one  *)
(* action is one such segment: the click up to the first await, or the     *)
(* continuation that runs when an awaited SDK promise settles.  The SDK is *)
(* the environment: each awaited call may resolve with any value of its    *)
(* type or reject.                                                         *)
(***************************************************************************)
EXTENDS Integers, Sequences, FiniteSets, TLC

\* ---------------------------------------------------------------- bounds
MaxConnect == 2   \* connectWallet invocations modelled
MaxLogout == 2    \* logout invocations modelled
MaxAccounts == 2  \* longest address list connectWithUI resolves with

\* ---------------------------------------------------------------- values
Null == "null"
Undefined == "undefined"

\* Addresses in their external representation; "0xabc" and "0xABC" differ
\* in letter case only.
Addresses == {"0xabc", "0xABC", "0xdef"}

Lower(a) == IF a = "0xABC" THEN "0xabc" ELSE a

\* process.env.REACT_APP_MAGIC_API_KEY: unset, empty, or a key.
ApiKeys == {Undefined, "", "pk_live_1"}

\* JavaScript truthiness of a string-or-null value.
Truthy(v) == v \notin {Null, Undefined, ""}

\* What getInfo().publicAddress can hold (string | null).
ClaimedAddresses == Addresses \cup {Null}

\* What connectWithUI() can resolve with: the addresses of the wallet that
\* was connected, at least one.
AccountLists == UNION {[1..n -> Addresses] : n \in 1..MaxAccounts}

\* ---------------------------------------------------------------- messages
CheckFailedMsg == "Failed to check login status"
ConnectFailedMsg == "Connection failed"
LogoutFailedMsg == "Logout failed"

VARIABLES
  apiKey,         \* process.env.REACT_APP_MAGIC_API_KEY
  phase,          \* "boot", "failed", "ready", "mounted", "unmounted"
  magic,          \* the Magic client has been constructed
  provider,       \* the BrowserProvider has been constructed
  account,        \* useState<string | null>(null)
  loading,        \* useState(true)
  isMounted,      \* the effect's flag
  pcCheck,        \* where checkLoginStatus is suspended
  isLoggedIn,     \* checkLoginStatus local
  user,           \* checkLoginStatus local: user.publicAddress
  signer,         \* checkLoginStatus local: signer.address
  error,          \* checkLoginStatus: where the caught error was thrown
  checkRuns,      \* invocations of checkLoginStatus so far
  connectStarted, \* connectWallet invocations so far
  connectPending, \* connectWallet invocations awaiting connectWithUI
  logoutStarted,  \* logout invocations so far
  logoutPending,  \* logout invocations awaiting magic.user.logout
  logoutFrom,     \* account and loading at the start of each pending logout
  callbacks,      \* callbacks registered with onUserLoggedOut
  requested,      \* SDK methods called so far
  logs,           \* messages written with console.error
  uncaught,       \* an error has escaped a handler
  checkSets,      \* setter calls made by checkLoginStatus, in order
  lateSets,       \* flows that called a setter after the unmount
  last            \* the segment that ran last, with its input

vars == <<apiKey, phase, magic, provider, account, loading, isMounted,
          pcCheck, isLoggedIn, user, signer, error, checkRuns,
          connectStarted, connectPending,
          logoutStarted, logoutPending, logoutFrom, callbacks, requested, logs,
          uncaught,
          checkSets, lateSets, last>>

moduleVars == <<apiKey, magic, provider>>
checkVars == <<pcCheck, isLoggedIn, user, signer, error, checkRuns, checkSets>>
connectVars == <<connectStarted, connectPending>>
logoutVars == <<logoutStarted, logoutPending, logoutFrom, callbacks>>

Event(op, arg) == [op |-> op, arg |-> arg]

BoolStr(b) == IF b THEN "true" ELSE "false"

\* The sequence without its i-th element.
Remove(seq, i) == SubSeq(seq, 1, i - 1) \o SubSeq(seq, i + 1, Len(seq))

\* ---------------------------------------------------------------- module
\* The key check left out.
KeyAlwaysPresent(k) == TRUE

\* Line 7: the key is required.
KeyPresent(k) == Truthy(k)

Init ==
  /\ apiKey \in ApiKeys
  /\ phase = "boot"
  /\ magic = FALSE
  /\ provider = FALSE
  /\ account = Null
  /\ loading = TRUE
  /\ isMounted = FALSE
  /\ pcCheck = "idle"
  /\ isLoggedIn = FALSE
  /\ user = Undefined
  /\ signer = Undefined
  /\ error = "none"
  /\ checkRuns = 0
  /\ connectStarted = 0
  /\ connectPending = 0
  /\ logoutStarted = 0
  /\ logoutPending = 0
  /\ logoutFrom = <<>>
  /\ callbacks = 0
  /\ requested = {}
  /\ logs = {}
  /\ uncaught = FALSE
  /\ checkSets = <<>>
  /\ lateSets = {}
  /\ last = Event("none", <<>>)

\* Lines 7-19: evaluation of the module.
ModuleInit ==
  /\ phase = "boot"
  /\ IF KeyPresent(apiKey)
       THEN /\ magic' = TRUE
            /\ provider' = TRUE
            /\ phase' = "ready"
       ELSE /\ phase' = "failed"
            /\ UNCHANGED <<magic, provider>>
  /\ last' = Event("moduleInit", <<>>)
  /\ UNCHANGED <<apiKey, account, loading, isMounted, checkVars, connectVars,
                 logoutVars, requested, logs, uncaught, lateSets>>

\* ---------------------------------------------------------------- state
\* Lines 23 and 26: React drops an update of a component that is no longer
\* mounted, so a setter called after the unmount leaves the value as it was.
SetState(current, value) == IF phase = "mounted" THEN value ELSE current

\* The spy on the setters: `who` called a setter after the unmount.
Spy(called, who) ==
  IF called /\ phase = "unmounted" THEN lateSets \cup {who} ELSE lateSets

\* ---------------------------------------------------------------- render
\* Lines 116-120: the Disconnect button of the header.
ShowDisconnect(a) == Truthy(a)

\* Lines 123-124: the loading indicator.
ShowLoading(l) == l

\* Lines 125-126: the account address.
ShowAddress(a, l) == ~l /\ Truthy(a)

\* The Connect button rendered without looking at loading.
ShowConnectIgnoringLoading(a, l) == ~Truthy(a)

\* Lines 127-131: the Connect button.
ShowConnect(a, l) == ~l /\ ~Truthy(a)

\* Lines 112-134: what the mounted component renders.
Rendered ==
  IF phase # "mounted" THEN {}
  ELSE (IF ShowDisconnect(account) THEN {"Disconnect"} ELSE {})
       \cup (IF ShowLoading(loading) THEN {"Loading"} ELSE {})
       \cup (IF ShowAddress(account, loading) THEN {"Address"} ELSE {})
       \cup (IF ShowConnect(account, loading) THEN {"Connect"} ELSE {})

\* ---------------------------------------------------------------- try/catch
\* provider.getSigner() awaited outside the try block.
TrySitesWithoutGetSigner ==
  {"isLoggedIn", "getInfo", "mismatch", "connectWithUI", "logout"}

\* magic.user.logout() awaited outside the try block.
TrySitesWithoutLogout ==
  {"isLoggedIn", "getInfo", "getSigner", "mismatch", "connectWithUI"}

\* The throwing sites that lie inside their handler's try block
\* (lines 30-35, 43-57, 70-92).
TrySites ==
  {"isLoggedIn", "getInfo", "getSigner", "mismatch", "connectWithUI", "logout"}

\* ---------------------------------------------------------------- mount
\* Lines 21-26 and 64-110: first render and the effect, which starts
\* checkLoginStatus up to its first await.
Mount ==
  /\ phase = "ready"
  /\ phase' = "mounted"
  /\ account' = Null
  /\ loading' = TRUE
  /\ isMounted' = TRUE
  /\ pcCheck' = "isLoggedIn"
  /\ checkRuns' = 1
  /\ requested' = requested \cup {"isLoggedIn"}
  /\ last' = Event("mount", <<>>)
  /\ UNCHANGED <<moduleVars, isLoggedIn, user, signer, error, checkSets,
                 connectVars, logoutVars, logs, uncaught, lateSets>>

\* Lines 107-109: the cleanup of the effect.
Unmount ==
  /\ phase = "mounted"
  /\ phase' = "unmounted"
  /\ isMounted' = FALSE
  /\ last' = Event("unmount", <<>>)
  /\ UNCHANGED <<moduleVars, account, loading, checkVars, connectVars,
                 logoutVars, requested, logs, uncaught, lateSets>>

\* ---------------------------------------------------------------- checkLoginStatus
\* The session test left out.
SessionAlways(r) == TRUE

\* Line 74: is there a session?
SessionExists(r) == r

\* The comparison made after normalising the letter case.
AddressesMatchIgnoringCase(claimed, signerAddress) ==
  Lower(claimed) = Lower(signerAddress)

\* The comparison inverted.
AddressesDiffer(claimed, signerAddress) == claimed # signerAddress

\* Line 83: the claimed address against the signer's.
AddressesMatch(claimed, signerAddress) == claimed = signerAddress

\* The guard left out.
MayMutateAlways(flag) == TRUE

\* Lines 88 and 97: the guard of every mutation.
MayMutate(flag) == flag

\* The flag inverted instead of cleared.
ToggledLoading(current) == ~current

\* Line 98: the value the finally block gives loading.
FinalLoading(current) == FALSE

\* Lines 86-100: how checkLoginStatus ends once its try block has ended,
\* by a throw at `site` (threw) or normally, with a validated address
\* (validated) or without.  Lines 89 and 98 run in the same continuation,
\* with no await between them: no event handler runs and nothing is painted
\* between the two setter calls, so both updates are one step.
checkLoginStatus_end(threw, site, validated) ==
  LET caught == threw /\ site \in TrySites
      escaped == threw /\ site \notin TrySites
      setsAccount == validated /\ MayMutate(isMounted)
      setsLoading == ~escaped /\ MayMutate(isMounted)
  IN /\ pcCheck' = "done"
     /\ logs' = IF caught THEN logs \cup {CheckFailedMsg} ELSE logs
     /\ uncaught' = (uncaught \/ escaped)
     /\ account' = IF setsAccount THEN SetState(account, user) ELSE account
     /\ loading' = IF setsLoading
                    THEN SetState(loading, FinalLoading(loading)) ELSE loading
     /\ error' = IF threw THEN site ELSE "none"
     /\ checkSets' = checkSets
                       \o (IF setsAccount THEN <<"setAccount">> ELSE <<>>)
                       \o (IF setsLoading THEN <<"setLoading">> ELSE <<>>)
     /\ lateSets' = Spy(setsAccount \/ setsLoading, "checkLoginStatus")

\* Lines 72-74: magic.user.isLoggedIn() resolves with r.
checkLoginStatus_isLoggedIn(r) ==
  /\ pcCheck = "isLoggedIn"
  /\ isLoggedIn' = r
  /\ last' = Event("isLoggedIn", <<BoolStr(r)>>)
  /\ IF SessionExists(r)
       THEN /\ pcCheck' = "getInfo"
            /\ requested' = requested \cup {"getInfo"}
            /\ UNCHANGED <<account, loading, error, checkSets, logs,
                           uncaught, lateSets>>
       ELSE /\ checkLoginStatus_end(FALSE, "none", FALSE)
            /\ UNCHANGED requested
  /\ UNCHANGED <<moduleVars, phase, isMounted, user, signer, checkRuns,
                 connectVars, logoutVars>>

\* Lines 76-80: magic.user.getInfo() resolves with publicAddress u.
checkLoginStatus_getInfo(u) ==
  /\ pcCheck = "getInfo"
  /\ user' = u
  /\ pcCheck' = "getSigner"
  /\ requested' = requested \cup {"getSigner"}
  /\ last' = Event("getInfo", <<u>>)
  /\ UNCHANGED <<moduleVars, phase, account, loading, isMounted, isLoggedIn,
                 signer, error, checkRuns, checkSets, connectVars, logoutVars,
                 logs, uncaught, lateSets>>

\* Lines 80-100: provider.getSigner() resolves with address s.
checkLoginStatus_getSigner(s) ==
  /\ pcCheck = "getSigner"
  /\ signer' = s
  /\ last' = Event("getSigner", <<s>>)
  /\ IF AddressesMatch(user, s)
       THEN checkLoginStatus_end(FALSE, "none", TRUE)
       ELSE checkLoginStatus_end(TRUE, "mismatch", FALSE)
  /\ UNCHANGED <<moduleVars, phase, isMounted, isLoggedIn, user, checkRuns,
                 connectVars, logoutVars, requested>>

\* Lines 72-100: the awaited SDK call rejects.
checkLoginStatus_throw ==
  /\ pcCheck \in {"isLoggedIn", "getInfo", "getSigner"}
  /\ last' = Event("checkThrow", <<pcCheck>>)
  /\ checkLoginStatus_end(TRUE, pcCheck, FALSE)
  /\ UNCHANGED <<moduleVars, phase, isMounted, isLoggedIn, user, signer,
                 checkRuns, connectVars, logoutVars, requested>>

\* Line 104 once more: checkLoginStatus is invoked a second time on the same
\* component, after its first run has ended.
checkLoginStatus_again ==
  /\ pcCheck = "done"
  /\ checkRuns = 1
  /\ checkRuns' = 2
  /\ pcCheck' = "isLoggedIn"
  /\ last' = Event("again", <<>>)
  /\ UNCHANGED <<moduleVars, phase, account, loading, isMounted, isLoggedIn,
                 user, signer, error, checkSets, connectVars, logoutVars,
                 requested, logs, uncaught, lateSets>>

\* The second run is given the responses of the first: the values the first
\* run left in isLoggedIn, user and signer, and a rejection where the first
\* run got one.
checkLoginStatus_replay ==
  /\ checkRuns = 2
  /\ \/ error = pcCheck /\ checkLoginStatus_throw
     \/ error # pcCheck /\ checkLoginStatus_isLoggedIn(isLoggedIn)
     \/ error # pcCheck /\ checkLoginStatus_getInfo(user)
     \/ error # pcCheck /\ checkLoginStatus_getSigner(signer)

\* ---------------------------------------------------------------- connectWallet
\* The last address taken instead of the first.
LastAccount(accounts) ==
  IF Len(accounts) = 0 THEN Undefined ELSE accounts[Len(accounts)]

\* Line 34: accounts[0]; indexing an empty array gives undefined.
FirstAccount(accounts) ==
  IF Len(accounts) = 0 THEN Undefined ELSE accounts[1]

\* The click showing the loading indicator while connectWithUI() is pending.
connectWalletWithSpinner ==
  /\ "Connect" \in Rendered
  /\ connectStarted < MaxConnect
  /\ connectStarted' = connectStarted + 1
  /\ connectPending' = connectPending + 1
  /\ loading' = SetState(loading, TRUE)
  /\ requested' = requested \cup {"connectWithUI"}
  /\ last' = Event("connectWallet", <<>>)
  /\ UNCHANGED <<moduleVars, phase, account, isMounted, checkVars,
                 logoutVars, logs, uncaught, lateSets>>

\* Lines 29-32: a click on the Connect button, up to the await.
connectWallet ==
  /\ "Connect" \in Rendered
  /\ connectStarted < MaxConnect
  /\ connectStarted' = connectStarted + 1
  /\ connectPending' = connectPending + 1
  /\ requested' = requested \cup {"connectWithUI"}
  /\ last' = Event("connectWallet", <<>>)
  /\ UNCHANGED <<moduleVars, phase, account, loading, isMounted, checkVars,
                 logoutVars, logs, uncaught, lateSets>>

\* Lines 32-34: magic.wallet.connectWithUI() resolves with accounts.
connectWallet_resolve(accounts) ==
  /\ connectPending > 0
  /\ connectPending' = connectPending - 1
  /\ account' = SetState(account, FirstAccount(accounts))
  /\ lateSets' = Spy(TRUE, "connectWallet")
  /\ last' = Event("connectResolve", accounts)
  /\ UNCHANGED <<moduleVars, phase, loading, isMounted, checkVars,
                 connectStarted, logoutVars, requested, logs, uncaught>>

\* The catch block resetting account besides logging.
connectWallet_rejectClearing ==
  /\ connectPending > 0
  /\ connectPending' = connectPending - 1
  /\ account' = SetState(account, Null)
  /\ logs' = logs \cup {ConnectFailedMsg}
  /\ last' = Event("connectReject", <<>>)
  /\ UNCHANGED <<moduleVars, phase, loading, isMounted, checkVars,
                 connectStarted, logoutVars, requested, uncaught, lateSets>>

\* Lines 35-38: magic.wallet.connectWithUI() rejects.
connectWallet_reject ==
  /\ connectPending > 0
  /\ connectPending' = connectPending - 1
  /\ logs' = IF "connectWithUI" \in TrySites
               THEN logs \cup {ConnectFailedMsg} ELSE logs
  /\ uncaught' = (uncaught \/ "connectWithUI" \notin TrySites)
  /\ last' = Event("connectReject", <<>>)
  /\ UNCHANGED <<moduleVars, phase, account, loading, isMounted, checkVars,
                 connectStarted, logoutVars, requested, lateSets>>

\* ---------------------------------------------------------------- logout
\* The callback registered by the first invocation only.
logoutRegisteringOnce ==
  /\ "Disconnect" \in Rendered
  /\ logoutStarted < MaxLogout
  /\ logoutStarted' = logoutStarted + 1
  /\ callbacks' = IF callbacks = 0 THEN 1 ELSE callbacks
  /\ logoutPending' = logoutPending + 1
  /\ logoutFrom' = Append(logoutFrom, <<account, BoolStr(loading)>>)
  /\ requested' = requested \cup {"onUserLoggedOut", "logout"}
  /\ last' = Event("logout", <<>>)
  /\ UNCHANGED <<moduleVars, phase, account, loading, isMounted, checkVars,
                 connectVars, logs, uncaught, lateSets>>

\* Lines 42-56: a click on the Disconnect button: the callback is
\* registered, then magic.user.logout() is called and awaited.
logout ==
  /\ "Disconnect" \in Rendered
  /\ logoutStarted < MaxLogout
  /\ logoutStarted' = logoutStarted + 1
  /\ callbacks' = callbacks + 1
  /\ logoutPending' = logoutPending + 1
  /\ logoutFrom' = Append(logoutFrom, <<account, BoolStr(loading)>>)
  /\ requested' = requested \cup {"onUserLoggedOut", "logout"}
  /\ last' = Event("logout", <<>>)
  /\ UNCHANGED <<moduleVars, phase, account, loading, isMounted, checkVars,
                 connectVars, logs, uncaught, lateSets>>

\* Line 56: magic.user.logout() resolves, for any of the pending invocations.
logout_resolve ==
  /\ logoutPending > 0
  /\ logoutPending' = logoutPending - 1
  /\ \E i \in 1..Len(logoutFrom) :
       /\ logoutFrom' = Remove(logoutFrom, i)
       /\ last' = Event("logoutResolve", logoutFrom[i])
  /\ UNCHANGED <<moduleVars, phase, account, loading, isMounted, checkVars,
                 connectVars, logoutStarted, callbacks, requested, logs,
                 uncaught, lateSets>>

\* The catch block resetting account besides logging.
logout_rejectClearing ==
  /\ logoutPending > 0
  /\ logoutPending' = logoutPending - 1
  /\ account' = SetState(account, Null)
  /\ logs' = logs \cup {LogoutFailedMsg}
  /\ \E i \in 1..Len(logoutFrom) :
       /\ logoutFrom' = Remove(logoutFrom, i)
       /\ last' = Event("logoutReject", logoutFrom[i])
  /\ UNCHANGED <<moduleVars, phase, loading, isMounted, checkVars,
                 connectVars, logoutStarted, callbacks, requested, uncaught,
                 lateSets>>

\* Lines 57-60: magic.user.logout() rejects, for any of the pending
\* invocations.
logout_reject ==
  /\ logoutPending > 0
  /\ logoutPending' = logoutPending - 1
  /\ logs' = IF "logout" \in TrySites
               THEN logs \cup {LogoutFailedMsg} ELSE logs
  /\ uncaught' = (uncaught \/ "logout" \notin TrySites)
  /\ \E i \in 1..Len(logoutFrom) :
       /\ logoutFrom' = Remove(logoutFrom, i)
       /\ last' = Event("logoutReject", logoutFrom[i])
  /\ UNCHANGED <<moduleVars, phase, account, loading, isMounted, checkVars,
                 connectVars, logoutStarted, callbacks, requested, lateSets>>

\* The callback's argument ignored.
CallbackClearsAlways(isLoggedOut) == TRUE

\* Line 46: the callback acts only on a confirmed logout.
CallbackClears(isLoggedOut) == isLoggedOut

\* Lines 45-50: the SDK calls a registered callback.
onUserLoggedOut(isLoggedOut) ==
  /\ callbacks > 0
  /\ account' = IF CallbackClears(isLoggedOut)
                  THEN SetState(account, Null) ELSE account
  /\ lateSets' = Spy(CallbackClears(isLoggedOut), "onUserLoggedOut")
  /\ last' = Event("onUserLoggedOut", <<BoolStr(isLoggedOut)>>)
  /\ UNCHANGED <<moduleVars, phase, loading, isMounted, checkVars,
                 connectVars, logoutVars, requested, logs, uncaught>>

\* ---------------------------------------------------------------- specification
checkLoginStatus_step ==
  \/ \E r \in BOOLEAN : checkLoginStatus_isLoggedIn(r)
  \/ \E u \in ClaimedAddresses : checkLoginStatus_getInfo(u)
  \/ \E s \in Addresses : checkLoginStatus_getSigner(s)
  \/ checkLoginStatus_throw

Next ==
  \/ ModuleInit
  \/ Mount
  \/ Unmount
  \/ checkLoginStatus_step
  \/ connectWallet
  \/ \E accounts \in AccountLists : connectWallet_resolve(accounts)
  \/ connectWallet_reject
  \/ logout
  \/ logout_resolve
  \/ logout_reject
  \/ \E isLoggedOut \in BOOLEAN : onUserLoggedOut(isLoggedOut)

Spec == Init /\ [][Next]_vars

\* checkLoginStatus run twice in succession with identical SDK responses.
NextTwice ==
  \/ ModuleInit
  \/ Mount
  \/ Unmount
  \/ checkRuns = 1 /\ checkLoginStatus_step
  \/ checkLoginStatus_again
  \/ checkLoginStatus_replay

TwiceSpec == Init /\ [][NextTwice]_vars

\* The page loads and mounts, and every SDK call made by checkLoginStatus
\* eventually returns or throws.
FairSpec ==
  /\ Spec
  /\ WF_vars(ModuleInit)
  /\ WF_vars(Mount)
  /\ WF_vars(checkLoginStatus_step)

TypeOK ==
  /\ apiKey \in ApiKeys
  /\ phase \in {"boot", "failed", "ready", "mounted", "unmounted"}
  /\ magic \in BOOLEAN /\ provider \in BOOLEAN
  /\ account \in Addresses \cup {Null, Undefined}
  /\ loading \in BOOLEAN /\ isMounted \in BOOLEAN
  /\ pcCheck \in {"idle", "isLoggedIn", "getInfo", "getSigner", "done"}
  /\ isLoggedIn \in BOOLEAN
  /\ user \in ClaimedAddresses \cup {Undefined}
  /\ signer \in Addresses \cup {Undefined}
  /\ error \in {"none", "isLoggedIn", "getInfo", "getSigner", "mismatch"}
  /\ checkRuns \in 0..2
  /\ connectStarted \in 0..MaxConnect /\ connectPending \in 0..connectStarted
  /\ logoutStarted \in 0..MaxLogout /\ logoutPending \in 0..logoutStarted
  /\ Len(logoutFrom) = logoutPending
  /\ callbacks \in 0..MaxLogout
  /\ logs \subseteq {CheckFailedMsg, ConnectFailedMsg, LogoutFailedMsg}
  /\ uncaught \in BOOLEAN
  /\ Len(checkSets) <= 4

\* ---------------------------------------------------------------- views
\* The three views of the UI state machine.
AccountSet == account \notin {Null, Undefined}
ViewLoading == loading
ViewDisconnected == ~loading /\ ~AccountSet
ViewConnected == ~loading /\ AccountSet

\* checkLoginStatus has just completed on the mounted component, its last
\* awaited call being `op`.
CheckJustCompleted(op) ==
  phase = "mounted" /\ pcCheck = "done" /\ last.op = op

\* ---------------------------------------------------------------- claims
\* C1: when a session exists and the claimed address differs from the
\* signer's address, in letter case only or otherwise, the check on a mounted
\* component catches and logs the mismatch error and completes with
\* loading = false and account = none.
C1_MismatchRejected ==
  (CheckJustCompleted("getSigner") /\ isLoggedIn /\ user # signer)
    => /\ loading = FALSE
       /\ account = Null
       /\ CheckFailedMsg \in logs
       /\ ~uncaught

C1_Witness ==
  /\ CheckJustCompleted("getSigner") /\ isLoggedIn
  /\ user # signer /\ Lower(user) = Lower(signer)

\* C2: when a session exists and the claimed address equals the signer's
\* address exactly, the check on a mounted component completes with
\* loading = false and account = that address.
C2_MatchAccepted ==
  (CheckJustCompleted("getSigner") /\ isLoggedIn /\ user = signer)
    => /\ loading = FALSE
       /\ account = user
       /\ account \in Addresses

C2_Witness ==
  CheckJustCompleted("getSigner") /\ isLoggedIn /\ user = signer

\* C3: when the auth client reports no session, the user record and the
\* signer are never requested, and the check on a mounted component
\* completes with loading = false and account = none.
C3_NoSession ==
  /\ ~isLoggedIn => requested \cap {"getInfo", "getSigner"} = {}
  /\ (CheckJustCompleted("isLoggedIn") /\ last.arg = <<"false">>)
       => /\ loading = FALSE
          /\ account = Null

C3_Witness ==
  CheckJustCompleted("isLoggedIn") /\ last.arg = <<"false">> /\ ~loading

\* C4: once the component is unmounted with checkLoginStatus still
\* suspended, no later step calls a setter on behalf of checkLoginStatus
\* or changes account or loading, whatever the SDK calls return or throw.
C4_NoMutationAfterUnmount ==
  [][(phase = "unmounted" /\ pcCheck # "done")
       => /\ account' = account
          /\ loading' = loading
          /\ checkSets' = checkSets
          /\ "checkLoginStatus" \notin lateSets']_vars

C4_Witness ==
  /\ phase = "unmounted" /\ pcCheck = "done" /\ last.op = "getSigner"
  /\ isLoggedIn /\ user = signer
  /\ checkSets = <<>> /\ account = Null /\ loading

\* C5: while the component stays mounted, loading eventually becomes false
\* whatever the SDK calls of checkLoginStatus return or throw; setLoading is
\* the last setter checkLoginStatus calls, and it calls none once it is done.
C5_LoadingEnds ==
  /\ (phase = "mounted") ~> (loading = FALSE \/ phase = "unmounted")
  /\ []((phase = "mounted" /\ pcCheck = "done")
          => /\ checkSets # <<>>
             /\ checkSets[Len(checkSets)] = "setLoading")
  /\ [][pcCheck = "done" => checkSets' = checkSets]_vars

C5_Witness ==
  /\ phase = "mounted" /\ pcCheck = "done" /\ ~loading
  /\ checkSets = <<"setAccount", "setLoading">>

\* C6: the mounted component renders the loading indicator exactly in
\* Loading, the Connect button exactly in Disconnected and the Disconnect
\* button exactly in Connected; the Disconnect button never appears with
\* the loading indicator.
C6_ViewsExclusive ==
  phase = "mounted"
    => /\ ("Loading" \in Rendered) <=> ViewLoading
       /\ ("Connect" \in Rendered) <=> ViewDisconnected
       /\ ("Disconnect" \in Rendered) <=> ViewConnected
       /\ ~({"Disconnect", "Loading"} \subseteq Rendered)
       /\ Rendered \in {{"Loading"}, {"Connect"}, {"Disconnect", "Address"}}

C6_Witness ==
  /\ CheckJustCompleted("getSigner") /\ user = signer
  /\ Rendered = {"Disconnect", "Address"}

\* C7: when connectWithUI resolves with a non-empty list of addresses on the
\* mounted component, account is the first address of the list and the view
\* is Connected, showing the address.
C7_ConnectFirstAddress ==
  (phase = "mounted" /\ last.op = "connectResolve" /\ Len(last.arg) > 0)
    => /\ account = last.arg[1]
       /\ ViewConnected
       /\ "Address" \in Rendered

C7_Witness ==
  /\ phase = "mounted" /\ last.op = "connectResolve" /\ Len(last.arg) = 2
  /\ last.arg[1] # last.arg[2]
  /\ account = last.arg[1]

\* C8: when the SDK fires a registered logout callback with true on the
\* mounted component, account becomes none and the view Disconnected; when
\* it fires the callback with false, account is left as it was.
C8_LogoutCallback ==
  /\ []((phase = "mounted" /\ last.op = "onUserLoggedOut"
           /\ last.arg = <<"true">>)
          => /\ account = Null
             /\ ViewDisconnected
             /\ "Connect" \in Rendered)
  /\ [][(last'.op = "onUserLoggedOut" /\ last'.arg = <<"false">>)
          => account' = account]_vars

C8_Witness ==
  /\ phase = "mounted" /\ last.op = "onUserLoggedOut"
  /\ last.arg = <<"true">> /\ logoutStarted = 1 /\ account = Null

\* C9: no error escapes a handler: every rejection of an SDK call made by
\* checkLoginStatus, connectWallet or logout, and the mismatch error, is
\* caught and logged, and the handler ends.
C9_NoUncaughtError ==
  /\ ~uncaught
  /\ last.op = "checkThrow" => (CheckFailedMsg \in logs /\ pcCheck = "done")
  /\ (last.op = "getSigner" /\ user # signer)
       => (CheckFailedMsg \in logs /\ pcCheck = "done")
  /\ last.op = "connectReject" => ConnectFailedMsg \in logs
  /\ last.op = "logoutReject" => LogoutFailedMsg \in logs

C9_Witness ==
  /\ logs = {CheckFailedMsg, ConnectFailedMsg, LogoutFailedMsg}
  /\ last.op = "logoutReject" /\ connectPending = 0 /\ logoutPending = 0

\* C10: when the API key is absent, initialisation fails: neither client
\* is constructed, the component never mounts, nothing is rendered and no
\* handler runs.
C10_MissingKeyFails ==
  apiKey = Undefined
    => /\ phase \in {"boot", "failed"}
       /\ ~magic /\ ~provider
       /\ Rendered = {}
       /\ pcCheck = "idle" /\ requested = {}
       /\ connectStarted = 0 /\ logoutStarted = 0 /\ callbacks = 0
       /\ account = Null /\ loading /\ ~isMounted

C10_Witness ==
  apiKey = Undefined /\ phase = "failed" /\ last.op = "moduleInit"

\* C11: when checkLoginStatus is run a second time with the SDK responses
\* of its first run, account and loading stay, from the end of the first run
\* to the end of the second, as the first run left them.
C11_CheckIdempotent ==
  [][checkRuns' = 2 => (account' = account /\ loading' = loading)]_vars

C11_Witness ==
  /\ phase = "mounted" /\ checkRuns = 2 /\ pcCheck = "done"
  /\ user = signer /\ account = user /\ ~loading
  /\ checkSets = <<"setAccount", "setLoading", "setAccount", "setLoading">>

\* C12: every async flow guards its mutations with the mount flag, so no
\* flow calls a setter of account or loading after the unmount.
C12_AllFlowsGuarded == lateSets = {}

\* The view of the state machine for given values of account and loading.
ViewOf(a, l) ==
  IF l THEN "Loading"
  ELSE IF a \notin {Null, Undefined} THEN "Connected" ELSE "Disconnected"

View == ViewOf(account, loading)

\* A step of the mounted component that changes account or loading.
StateChanges ==
  phase' = "mounted" /\ <<account', loading'>> # <<account, loading>>

\* The four transitions of the state machine, each with its cause.
FourTransitions ==
  \/ /\ View = "Loading" /\ View' = "Disconnected"
     /\ last'.op \in {"isLoggedIn", "getSigner", "checkThrow"}
     /\ pcCheck' = "done"
     /\ (~isLoggedIn' \/ error' # "none")
  \/ /\ View = "Loading" /\ View' = "Connected"
     /\ last'.op = "getSigner" /\ user' = signer' /\ account' = user'
  \/ /\ View = "Disconnected" /\ View' = "Connected"
     /\ last'.op = "connectResolve" /\ account' = last'.arg[1]
  \/ /\ View = "Connected" /\ View' = "Disconnected"
     /\ last'.op = "onUserLoggedOut" /\ last'.arg = <<"true">>

\* A connectWithUI() that resolves in the Connected view replaces the address.
AddressReplaced ==
  /\ View = "Connected" /\ View' = "Connected"
  /\ last'.op = "connectResolve" /\ account' = last'.arg[1]

\* account goes from set to none only when a logout callback fires.
ClearedOnlyByCallback ==
  (AccountSet /\ ~AccountSet') => last'.op = "onUserLoggedOut"

\* C13 as stated: every change of account or loading is one of the four
\* transitions, and account goes from set to none only by a logout callback.
C13_OnlyFourTransitions ==
  [][(StateChanges => FourTransitions) /\ ClearedOnlyByCallback]_vars

\* C13 as amended: every change of view is one of the four transitions, and
\* the only other change of account or loading is the replacement of the
\* address, within Connected, by a connectWithUI() that resolves there;
\* account goes from set to none only by a logout callback.
C13_TransitionsOrReplacement ==
  [][/\ StateChanges => (FourTransitions \/ AddressReplaced)
     /\ (phase' = "mounted" /\ View' # View) => FourTransitions
     /\ ClearedOnlyByCallback]_vars

C13_Witness ==
  /\ phase = "mounted" /\ last.op = "connectResolve"
  /\ connectStarted = 2 /\ connectPending = 0 /\ callbacks = 0
  /\ ConnectFailedMsg \notin logs /\ account = last.arg[1]

\* C14: loading is true until checkLoginStatus ends; once false it is never
\* true again; and only the end of checkLoginStatus changes it.
C14_LoadingMonotone ==
  /\ [](pcCheck # "done" => loading)
  /\ [][/\ ~loading => ~loading'
        /\ loading' # loading
             => /\ last'.op \in {"isLoggedIn", "getSigner", "checkThrow"}
                /\ pcCheck' = "done"]_vars

C14_Witness ==
  /\ phase = "mounted" /\ ~loading /\ last.op = "onUserLoggedOut"
  /\ connectStarted = 2 /\ logoutStarted = 2
  /\ logs = {CheckFailedMsg, ConnectFailedMsg, LogoutFailedMsg}

\* C15: every value stored into account, when it is not none, is the address
\* checkLoginStatus has just found equal to the signer's, or the first
\* address of the list a connectWithUI() has just resolved with.
C15_AccountProvenance ==
  /\ [](AccountSet => account \in Addresses)
  /\ [][(account' # account /\ AccountSet')
          => \/ /\ last'.op = "getSigner" /\ isLoggedIn'
                /\ user' = signer' /\ account' = user'
             \/ /\ last'.op = "connectResolve"
                /\ account' = last'.arg[1]]_vars

C15_Witness ==
  /\ phase = "mounted" /\ last.op = "connectResolve"
  /\ isLoggedIn /\ user = signer /\ error = "none"
  /\ account = last.arg[1] /\ account # user

C17_LogoutFailureKeepsState ==
  last.op = "logoutReject"
    => /\ account = last.arg[1]
       /\ BoolStr(loading) = last.arg[2]

\* C17 as amended: the catch block of a failing logout() only logs, leaving
\* account and loading as they were just before it ran, and loading is what
\* it was when the invocation started.
C17_LogoutFailureFrame ==
  /\ [][last'.op = "logoutReject"
          => /\ account' = account
             /\ loading' = loading
             /\ LogoutFailedMsg \in logs']_vars
  /\ [](last.op = "logoutReject" => BoolStr(loading) = last.arg[2])

C17_Witness ==
  /\ phase = "mounted" /\ last.op = "logoutReject"
  /\ last.arg[1] \in Addresses /\ account = Null /\ logoutStarted = 1

\* C18: every logout() invocation registers one more callback with the call
\* it issues, so every SDK logout call in flight has its callback registered;
\* no callback is ever removed, so the callbacks registered number the
\* invocations started; and the end of the SDK logout call ends logout()
\* without touching account, whether or not a callback has fired.
C18_CallbacksAccumulate ==
  /\ [](callbacks = logoutStarted /\ logoutPending <= callbacks)
  /\ [][/\ callbacks' >= callbacks
        /\ last'.op = "logout"
             => /\ callbacks' = callbacks + 1
                /\ logoutPending' = logoutPending + 1
        /\ last'.op \in {"logoutResolve", "logoutReject"}
             => /\ callbacks' = callbacks
                /\ logoutPending' = logoutPending - 1
                /\ account' = account]_vars

C18_Witness ==
  /\ phase = "mounted" /\ last.op = "logoutResolve" /\ logoutPending = 0
  /\ logoutStarted = 2 /\ callbacks = 2
  /\ AccountSet /\ account = last.arg[1] /\ "Disconnect" \in Rendered

\* The component was unmounted before checkLoginStatus reached its end.
UnmountedDuringCheck ==
  /\ phase = "unmounted"
  /\ \/ pcCheck # "done"
     \/ last.op \in {"isLoggedIn", "getInfo", "getSigner", "checkThrow"}

\* C19: when the component is unmounted before checkLoginStatus reaches its
\* end, the check still runs to its end, comparison included, but calls no
\* setter: loading stays true and account none from then on, even when the
\* SDK returns a validated session.
C19_UnmountDiscardsCheck ==
  /\ [](UnmountedDuringCheck
          => /\ loading /\ account = Null
             /\ checkSets = <<>>
             /\ "checkLoginStatus" \notin lateSets)
  /\ []((UnmountedDuringCheck /\ last.op = "getSigner")
          => /\ pcCheck = "done"
             /\ (user = signer) <=> (error = "none")
             /\ (user # signer) <=> (CheckFailedMsg \in logs))
  /\ [][phase = "unmounted"
          => (loading' = loading /\ account' = account)]_vars
  /\ (phase = "unmounted" /\ pcCheck # "done") ~> (pcCheck = "done")

C19_Witness ==
  /\ UnmountedDuringCheck /\ pcCheck = "done" /\ last.op = "getSigner"
  /\ user = signer /\ error = "none" /\ logs = {}
  /\ loading /\ account = Null

====
